---- MODULE Spec2Model ----
(***************************************************************************)
(* A model of pyvmcode (src/vmcode.py): the CodePlanter / FunctionBuilder  *)
(* emission API with its Label backpatching and its IF / WHILE generators, *)
(* and the Engine that runs the built code.                                *)
(*                                                                         *)
(* Python indices are kept 0-based in every value the program stores (pc,  *)
(* label offsets, patch indices); a TLA+ sequence s holds Python's s[i] at *)
(* s[i + 1].                                                               *)
(***************************************************************************)
EXTENDS Integers, Sequences, FiniteSets, TLC

(***************************************************************************)
(* Bounds of the exploration.                                              *)
(***************************************************************************)
MaxCode == 6      \* free client: no emission once the builder holds more cells
MaxDepth == 2     \* free client: open constructs on the nesting stack
MaxLabels == 1    \* free client: labels made by NEW_LABEL()
MaxFuncs == 1     \* free client: functions built
MaxBuilds == 2    \* the rebuilding client: build() calls on one builder
MaxArms == 2      \* IF programs: conditions c1..ck
MaxN == 5         \* WHILE programs: the initial value of n
MaxInt == 2       \* comparison programs: arguments 0..MaxInt
MaxExtra == 1     \* programs invoked with up to this many additional arguments
MaxSteps == 70    \* opcodes fetched by one invocation

(***************************************************************************)
(* Cells and values.  A cell of an instruction sequence and a value on the *)
(* operand stack are the same Python objects; every one is a record of the *)
(* same shape: tag (the Python type), s (a str, or the name of a handler   *)
(* or native function), n (an int, a bool as 0/1, a parameter count or a   *)
(* function's index in funcs).                                             *)
(***************************************************************************)
Cell(tag, s, n) == [tag |-> tag, s |-> s, n |-> n]
Op(name) == Cell("op", name, 0)          \* a module-level inst_* function
NoneCell == Cell("None", "", 0)
IntV(i) == Cell("int", "", i)
BoolV(b) == Cell("bool", "", IF b THEN 1 ELSE 0)
StrV(str) == Cell("str", str, 0)
SysNto1V(fname, params) == Cell("SysNto1", fname, params)
Sys2to1V(fname, params) == Cell("Sys2to1", fname, params)
FunctionV(fid) == Cell("Function", "", fid)

\* Python's truth value of an object, as `not engine.value_stack.pop()` takes it.
Truthy(v) ==
    CASE v.tag = "bool" -> v.n = 1
      [] v.tag = "int" -> v.n # 0
      [] v.tag = "str" -> v.s # ""
      [] v.tag = "None" -> FALSE
      [] OTHER -> TRUE

IsNumber(v) == v.tag \in {"int", "bool"}

\* SysFn.nargs / SysNto1.nargs / Sys2to1.nargs
nargs(fn) == IF fn.tag = "Sys2to1" THEN 2 ELSE fn.n

\* The natives: ENVIRONMENT['>'], ENVIRONMENT['<'] and the natives a client
\* wraps itself.  NativeRaises: the call fn(*args) raises TypeError (a wrong
\* argument count, operands the operator is not defined on, or fn is no callable).
NativeRaises(fn, args) ==
    \/ fn.tag \notin {"SysNto1", "Sys2to1"}
    \/ Len(args) # fn.n
    \/ fn.s \in {">", "<", "sub"} /\ \E i \in 1..Len(args) : ~IsNumber(args[i])
    \/ fn.s \notin {">", "<", "sub", "zero", "third"}

NativeResult(fn, args) ==
    CASE fn.s = ">" -> BoolV(args[1].n > args[2].n)
      [] fn.s = "<" -> BoolV(args[1].n < args[2].n)
      [] fn.s = "sub" -> IntV(args[1].n - args[2].n)
      [] fn.s = "zero" -> IntV(0)
      [] fn.s = "third" -> args[3]
      [] OTHER -> NoneCell

\* dict
EmptyDict == [x \in {} |-> NoneCell]
Put(d, k, v) == [x \in (DOMAIN d) \cup {k} |-> IF x = k THEN v ELSE d[x]]

ENVIRONMENT == Put(Put(EmptyDict, ">", Sys2to1V(">", 2)), "<", Sys2to1V("<", 2))

VARIABLES
    \* the FunctionBuilder under construction
    b_code,       \* CodePlanter._code
    local_vars,   \* CodePlanter._local_vars
    nesting,      \* CodePlanter._nesting: the suspended _IF / _WHILE generators
    labels,       \* the Label objects the client made with NEW_LABEL()
    \* the client
    prog,         \* the client program
    ip,           \* how many calls of the client program have been made
    last,         \* the last builder call and whether it raised
    funcs,        \* Function._code of every function built, in build order
    \* the Engine of the current invocation
    status,       \* "idle" | "running" | "halted" | "error"
    value_stack, code, pc, locals, globals, dump,
    result,       \* what Function.__call__ returned
    invoked,      \* the function and arguments of the current invocation
    trace,        \* the pcs fetched by Engine.run, with the length of the dump
    hist,         \* the structural tokens the current builder accepted
    other         \* a second invocation and its Engine, while it is not scheduled

bvars == <<b_code, local_vars, nesting, labels>>
evars == <<status, value_stack, code, pc, locals, globals, dump, result, invoked, trace>>
vars == <<b_code, local_vars, nesting, labels, prog, ip, last, funcs, hist,
          status, value_stack, code, pc, locals, globals, dump, result, invoked, trace,
          other>>

(***************************************************************************)
(* Label and the planting / patching of labels.  A Label object is held by *)
(* exactly one owner (a local variable of a generator, or the client), so  *)
(* it is kept as a value where its owner is; a method that changes both    *)
(* the builder's code and a label gives the pair [code, label].            *)
(***************************************************************************)
\* Label.__init__
Label == [isset |-> FALSE, offset |-> 0, dependents |-> <<>>]

CL(c, label) == [code |-> c, label |-> label]

\* CodePlanter._set
set_cell(c, n, offset) == [c EXCEPT ![n + 1] = IntV(offset)]

\* for d in self._dependents: d(offset), each d being lambda l: self._set(n, l)
RECURSIVE run_dependents(_, _, _)
run_dependents(c, ds, offset) ==
    IF ds = <<>> THEN c
    ELSE run_dependents(set_cell(c, Head(ds), offset), Tail(ds), offset)

\* set_label without its first test
set_label_unchecked(label) == FALSE

\* Label.set_label raises 'Label already set' (offset is always an int here:
\* LABEL passes len(self._code)).
set_label_raises(label) == label.isset

\* Label.set_label when it does not raise; _dependents = None is the empty list.
set_label(c, label, offset) ==
    CL(run_dependents(c, label.dependents, offset),
       [isset |-> TRUE, offset |-> offset, dependents |-> <<>>])

\* LABEL binding the label one cell further than the current end
LABEL_next(c, label) == set_label(c, label, Len(c) + 1)

\* CodePlanter.LABEL when set_label does not raise
LABEL(c, label) == set_label(c, label, Len(c))

\* _plant_label registering the index after the planted cell
plant_label_next(c, label) ==
    IF label.isset
    THEN CL(Append(c, IntV(label.offset)), label)
    ELSE CL(Append(c, NoneCell), [label EXCEPT !.dependents = Append(@, Len(c) + 1)])

\* CodePlanter._plant_label
plant_label(c, label) ==
    IF label.isset
    THEN CL(Append(c, IntV(label.offset)), label)
    ELSE CL(Append(c, NoneCell), [label EXCEPT !.dependents = Append(@, Len(c))])

(***************************************************************************)
(* The generators.  A suspended generator is the yield it waits at (st)    *)
(* and its local variables (a label not yet assigned reads as a new Label);*)
(* st = "dead" is a generator that has finished by raising.  A send gives  *)
(* [code, g, out]: out is "yield" (suspended again), "return"              *)
(* (StopIteration) or "raise" (RuntimeError).                              *)
(***************************************************************************)
Gen(st) == [st |-> st, endif_label |-> Label, next_case_label |-> Label,
            startwhile_label |-> Label, endwhile_label |-> Label]
Sent(c, g, out) == [code |-> c, g |-> g, out |-> out]
Raise(c) == Sent(c, Gen("dead"), "raise")
Return(c) == Sent(c, Gen("dead"), "return")

\* _IF lines 309-312 and 332-334: a conditional jump to a new next-case label
if_then(c, g, new_endif) ==
    LET p == plant_label(Append(c, Op("inst_jump_if_not")), Label)
    IN  Sent(p.code,
             [g EXCEPT !.st = "if_branch",
                       !.endif_label = IF new_endif THEN Label ELSE @,
                       !.next_case_label = p.label],
             "yield")

\* if_next without the unconditional jump's opcode
if_next_no_jump(c, g, st) ==
    LET p == plant_label(c, g.endif_label)
        q == LABEL(p.code, g.next_case_label)
    IN  Sent(q.code,
             [g EXCEPT !.st = st, !.endif_label = p.label, !.next_case_label = q.label],
             "yield")

\* _IF lines 320-322 and 326-328: leave the branch, bind next-case here
if_next(c, g, st) ==
    LET p == plant_label(Append(c, Op("inst_jump")), g.endif_label)
        q == LABEL(p.code, g.next_case_label)
    IN  Sent(q.code,
             [g EXCEPT !.st = st, !.endif_label = p.label, !.next_case_label = q.label],
             "yield")

\* if_end binding end-of-if before it tests the token
if_end_binds_first(c, g, state) ==
    LET r == LABEL(c, g.endif_label)
    IN  IF state # "ENDIF" THEN Raise(r.code) ELSE Return(r.code)

\* _IF lines 339-343
if_end(c, g, state) ==
    IF state # "ENDIF" THEN Raise(c)
    ELSE LET q == IF ~g.next_case_label.isset THEN LABEL(c, g.next_case_label)
                  ELSE CL(c, g.next_case_label)
         IN  Return(LABEL(q.code, g.endif_label).code)

\* CodePlanter._IF resumed by send(state)
IF_send(c, g, state) ==
    CASE g.st = "if_start" ->                       \* the yield of line 306
            IF state # "THEN" THEN Raise(c) ELSE if_then(c, g, TRUE)
      [] g.st = "if_branch" ->                      \* the yield of line 315
            CASE state = "ENDIF" -> if_end(c, g, state)
              [] state = "ELSE" -> if_next(c, g, "if_else")
              [] state = "ELSEIF" -> if_next(c, g, "if_elseif")
              [] OTHER -> Raise(c)
      [] g.st = "if_else" -> if_end(c, g, state)    \* the yield of line 323
      [] g.st = "if_elseif" ->                      \* the yield of line 329
            IF state # "THEN" THEN Raise(c) ELSE if_then(c, g, FALSE)

\* _WHILE without LABEL(startwhile_label)
WHILE_start_unbound(c) == Sent(c, Gen("while_start"), "yield")

\* CodePlanter._WHILE up to its first yield (run by next(g) in WHILE)
WHILE_start(c) ==
    LET q == LABEL(c, Label)
    IN  Sent(q.code, [Gen("while_start") EXCEPT !.startwhile_label = q.label], "yield")

\* CodePlanter._WHILE resumed by send(state)
WHILE_send(c, g, state) ==
    CASE g.st = "while_start" ->                    \* the yield of line 367
            IF state # "DO" THEN Raise(c)
            ELSE LET p == plant_label(Append(c, Op("inst_jump_if_not")), Label)
                 IN  Sent(p.code, [g EXCEPT !.st = "while_body", !.endwhile_label = p.label],
                          "yield")
      [] g.st = "while_body" ->                     \* the yield of line 376
            IF state # "ENDWHILE" THEN Raise(c)
            ELSE LET p == plant_label(Append(c, Op("inst_jump")), g.startwhile_label)
                 IN  Return(LABEL(p.code, g.endwhile_label).code)

\* generator.send(state) on a generator that has not finished
send(c, g, state) ==
    IF g.st \in {"while_start", "while_body"} THEN WHILE_send(c, g, state)
    ELSE IF_send(c, g, state)

(***************************************************************************)
(* The client: what calls the builder and the built functions.  A client   *)
(* program is either one of the programs of src/test_vmcode.py, made       *)
(* parametric, or a free client: any sequence of calls of some of the      *)
(* builder's methods, within the bounds.                                   *)
(***************************************************************************)
Call(op, a) == [op |-> op, a |-> a]
Prog(kind, k, els, tail) == [kind |-> kind, k |-> k, els |-> els, tail |-> tail]

CondName == <<"c1", "c2", "c3", "c4", "c5">>
BodyMark == <<"b1", "b2", "b3", "b4", "b5">>

\* test_simple_vmcode
SimpleScript ==
    <<Call("VAR", "x"), Call("POP", "x"), Call("PUSH", "x"), Call("PUSH", "x"),
      Call("build", 0)>>

RECURSIVE Pops(_)
Pops(k) == IF k = 0 THEN <<>> ELSE <<Call("POP", CondName[k])>> \o Pops(k - 1)

RECURSIVE Arms(_, _)
Arms(i, k) ==
    IF i > k THEN <<>>
    ELSE (IF i > 1 THEN <<Call("ELSEIF", 0)>> ELSE <<>>)
         \o <<Call("PUSH", CondName[i]), Call("THEN", 0), Call("PUSHQ", StrV(BodyMark[i]))>>
         \o Arms(i + 1, k)

\* test_if1arm_vmcode, test_if2arms_vmcode, test_elseif_vmcode: k conditions
\* held in locals, an ELSE branch if els = 1, and `tail` statements after ENDIF
IfScript(k, els, tail) ==
    <<Call("VARS", [i \in 1..k |-> CondName[i]])>> \o Pops(k) \o <<Call("IF", 0)>>
    \o Arms(1, k)
    \o (IF els = 1 THEN <<Call("ELSE", 0), Call("PUSHQ", StrV("e"))>> ELSE <<>>)
    \o <<Call("ENDIF", 0)>>
    \o (IF tail = 1 THEN <<Call("PUSHQ", StrV("z"))>> ELSE <<>>)
    \o <<Call("build", 0)>>

\* test_lessthan_vmcode, for either comparison of ENVIRONMENT
LtName == <<"<", ">">>
LtScript(k) ==
    <<Call("VARS", <<"x", "y">>), Call("POP", "y"), Call("POP", "x"),
      Call("PUSH", "x"), Call("PUSH", "y"), Call("CALLQ", ENVIRONMENT[LtName[k]]),
      Call("build", 0)>>

\* spec.md section 8, WHILE loop termination: while n > 0: push "v"; n := n - 1
WhileScript ==
    <<Call("VAR", "n"), Call("POP", "n"), Call("WHILE", 0),
      Call("PUSH", "n"), Call("PUSHQ", IntV(0)), Call("CALLQ", ENVIRONMENT[">"]),
      Call("DO", 0),
      Call("PUSHQ", StrV("v")),
      Call("PUSH", "n"), Call("PUSHQ", IntV(1)), Call("CALLQ", Sys2to1V("sub", 2)),
      Call("POP", "n"),
      Call("ENDWHILE", 0), Call("build", 0)>>

\* a function F whose body calls a built function G
CallScript ==
    <<Call("PUSHQ", StrV("g")), Call("build", 0), Call("FunctionBuilder", 0),
      Call("VAR", "x"), Call("POP", "x"), Call("CALLQ", FunctionV(1)),
      Call("PUSH", "x"), Call("build", 0)>>

\* a function that calls one native procedure on its arguments
Natives == <<SysNto1V("zero", 0), SysNto1V("sub", 2), SysNto1V("third", 3)>>
NativeScript(k) == <<Call("CALLQ", Natives[k]), Call("build", 0)>>

\* two functions of two builders: the first stores its argument under "g", the
\* second loads "g"; k chooses which of the two declares "g" local
\* (1: neither, 2: the first, 3: both)
GlobalScript(k) ==
    (IF k >= 2 THEN <<Call("VAR", "g")>> ELSE <<>>)
    \o <<Call("POP", "g"), Call("build", 0), Call("FunctionBuilder", 0)>>
    \o (IF k = 3 THEN <<Call("VAR", "g")>> ELSE <<>>)
    \o <<Call("PUSH", "g"), Call("build", 0)>>

Script ==
    CASE prog.kind = "simple" -> SimpleScript
      [] prog.kind = "if" -> IfScript(prog.k, prog.els, prog.tail)
      [] prog.kind = "lt" -> LtScript(prog.k)
      [] prog.kind = "while" -> WhileScript
      [] prog.kind = "call" -> CallScript
      [] prog.kind = "native" -> NativeScript(prog.k)
      [] prog.kind = "pair" -> IfScript(1, 1, 1)     \* two calls of it interleave
      [] prog.kind = "global" -> GlobalScript(prog.k)
      [] OTHER -> <<>>

\* The free clients: each makes any sequence of calls of its methods.
FreeOps ==
    [tokens |-> {"IF", "WHILE", "THEN", "ELSEIF", "ELSE", "ENDIF", "DO", "ENDWHILE",
                 "PUSHQ", "build"},
     labels |-> {"NEW_LABEL", "LABEL", "_plant_label", "build"},
     names |-> {"VAR", "POP", "PUSH", "PUSHQ", "build"},
     procs |-> {"CALLQ", "PUSHQ", "build"},
     builds |-> {"PUSHQ", "IF", "THEN", "ENDIF", "build"}]

Progs ==
    {Prog(kind, 0, 0, 0) : kind \in DOMAIN FreeOps}
    \cup {Prog("simple", 0, 0, 0), Prog("while", 0, 0, 0), Prog("call", 0, 0, 0)}
    \cup {Prog("if", k, els, tail) : k \in 1..MaxArms, els \in 0..1, tail \in 0..1}
    \cup {Prog("lt", k, 0, 0) : k \in 1..2}
    \cup {Prog("native", k, 0, 0) : k \in 1..3}
    \cup {Prog("pair", 0, 0, 0)}
    \cup {Prog("global", k, 0, 0) : k \in 1..3}

Free == prog.kind \in DOMAIN FreeOps

\* The arguments the client may pass to builder method op now: the next call of
\* its program, or, for the free client, any of freeargs.
Args(op, freeargs) ==
    IF status # "idle" THEN {}
    ELSE IF Free THEN (IF op \in FreeOps[prog.kind] THEN freeargs ELSE {})
    ELSE IF ip < Len(Script) /\ Script[ip + 1].op = op THEN {Script[ip + 1].a}
    ELSE {}

CanEmit == Len(b_code) < MaxCode
\* how many functions the client builds
BuildLimit == IF prog.kind = "builds" THEN MaxBuilds ELSE MaxFuncs
UserLabels == 1..Len(labels)

NoTokens == [raised |-> FALSE, n_then |-> 0, n_do |-> 0, n_else |-> 0,
             n_elseif |-> 0, n_endwhile |-> 0]

\* what every builder call leaves: the outcome seen by the client
Returned(op, raised) ==
    /\ last' = [op |-> op, raised |-> raised]
    /\ ip' = IF Free THEN ip ELSE ip + 1
    /\ UNCHANGED <<prog, status, value_stack, code, pc, locals, globals, dump, result,
                   invoked, trace, other>>

Counted(op, raised) ==
    hist' = IF raised \/ hist.raised THEN [NoTokens EXCEPT !.raised = TRUE]
            ELSE CASE op = "THEN" -> [hist EXCEPT !.n_then = @ + 1]
                   [] op = "DO" -> [hist EXCEPT !.n_do = @ + 1]
                   [] op = "ELSE" -> [hist EXCEPT !.n_else = @ + 1]
                   [] op = "ELSEIF" -> [hist EXCEPT !.n_elseif = @ + 1]
                   [] op = "ENDWHILE" -> [hist EXCEPT !.n_endwhile = @ + 1]
                   [] OTHER -> hist

(***************************************************************************)
(* The builder's methods, one action each.                                 *)
(***************************************************************************)
\* FunctionBuilder.__init__ (and CodePlanter.__init__): a new builder replaces
\* the one the client held; the client drops the old builder and its labels.
FunctionBuilder ==
    /\ Args("FunctionBuilder", {}) # {}
    /\ b_code' = <<NoneCell>>
    /\ local_vars' = {}
    /\ nesting' = <<>>
    /\ labels' = <<>>
    /\ hist' = NoTokens
    /\ UNCHANGED funcs
    /\ Returned("FunctionBuilder", FALSE)

\* CodePlanter.VAR
VAR(name) ==
    /\ local_vars' = local_vars \cup {name}
    /\ UNCHANGED <<b_code, nesting, labels, funcs>>
    /\ Counted("VAR", FALSE)
    /\ Returned("VAR", FALSE)

\* CodePlanter.VARS
VARS(names) ==
    /\ local_vars' = local_vars \cup {names[i] : i \in 1..Len(names)}
    /\ UNCHANGED <<b_code, nesting, labels, funcs>>
    /\ Counted("VARS", FALSE)
    /\ Returned("VARS", FALSE)

\* POP emitting the local opcode whatever is declared
POP_local(name) ==
    /\ b_code' = b_code \o <<Op("inst_pop_local"), StrV(name)>>
    /\ UNCHANGED <<local_vars, nesting, labels, funcs>>
    /\ Counted("POP", FALSE)
    /\ Returned("POP", FALSE)

\* CodePlanter.POP
POP(name) ==
    /\ b_code' = b_code \o <<IF name \in local_vars THEN Op("inst_pop_local")
                              ELSE Op("inst_pop_global"), StrV(name)>>
    /\ UNCHANGED <<local_vars, nesting, labels, funcs>>
    /\ Counted("POP", FALSE)
    /\ Returned("POP", FALSE)

\* CodePlanter.PUSH
PUSH(name) ==
    /\ b_code' = b_code \o <<IF name \in local_vars THEN Op("inst_push_local")
                              ELSE Op("inst_push_global"), StrV(name)>>
    /\ UNCHANGED <<local_vars, nesting, labels, funcs>>
    /\ Counted("PUSH", FALSE)
    /\ Returned("PUSH", FALSE)

\* CodePlanter.PUSHQ
PUSHQ(value) ==
    /\ b_code' = b_code \o <<Op("inst_pushq"), value>>
    /\ UNCHANGED <<local_vars, nesting, labels, funcs>>
    /\ Counted("PUSHQ", FALSE)
    /\ Returned("PUSHQ", FALSE)

\* The opcode CodePlanter.CALLQ selects for fn; NoneCell: it raises
\* 'Unknown procedure type'.
callq_opcode(fn) ==
    CASE fn.tag = "Function" -> Op("inst_callq")
      [] fn.tag \in {"SysNto1", "Sys2to1"} ->
            IF nargs(fn) = 0 THEN Op("inst_sys_callq_0to1")
            ELSE IF nargs(fn) = 2 THEN Op("inst_sys_callq_2to1")
            ELSE Op("inst_sys_callq_Nto1")
      [] OTHER -> NoneCell

\* CodePlanter.CALLQ
CALLQ(fn) ==
    LET raised == callq_opcode(fn) = NoneCell
    IN  /\ b_code' = IF raised THEN b_code ELSE b_code \o <<callq_opcode(fn), fn>>
        /\ UNCHANGED <<local_vars, nesting, labels, funcs>>
        /\ Counted("CALLQ", raised)
        /\ Returned("CALLQ", raised)

\* CodePlanter.NEW_LABEL called by the client, which keeps the label
b_NEW_LABEL ==
    /\ labels' = Append(labels, Label)
    /\ UNCHANGED <<b_code, local_vars, nesting, funcs>>
    /\ Counted("NEW_LABEL", FALSE)
    /\ Returned("NEW_LABEL", FALSE)

\* CodePlanter.LABEL called by the client on its l-th label
b_LABEL(l) ==
    LET raised == set_label_raises(labels[l])
        q == IF raised THEN CL(b_code, labels[l]) ELSE LABEL(b_code, labels[l])
    IN  /\ b_code' = q.code
        /\ labels' = [labels EXCEPT ![l] = q.label]
        /\ UNCHANGED <<local_vars, nesting, funcs>>
        /\ Counted("LABEL", raised)
        /\ Returned("LABEL", raised)

\* CodePlanter._plant_label called by the client on its l-th label
b_plant_label(l) ==
    LET p == plant_label(b_code, labels[l])
    IN  /\ b_code' = p.code
        /\ labels' = [labels EXCEPT ![l] = p.label]
        /\ UNCHANGED <<local_vars, nesting, funcs>>
        /\ Counted("_plant_label", FALSE)
        /\ Returned("_plant_label", FALSE)

\* CodePlanter.IF: next(g) runs _IF to its first yield, which does nothing
b_IF ==
    /\ nesting' = Append(nesting, Gen("if_start"))
    /\ UNCHANGED <<b_code, local_vars, labels, funcs>>
    /\ Counted("IF", FALSE)
    /\ Returned("IF", FALSE)

\* CodePlanter.WHILE: next(g) runs _WHILE to its first yield
b_WHILE ==
    LET r == WHILE_start(b_code)
    IN  /\ nesting' = Append(nesting, r.g)
        /\ b_code' = r.code
        /\ UNCHANGED <<local_vars, labels, funcs>>
        /\ Counted("WHILE", FALSE)
        /\ Returned("WHILE", FALSE)

\* _send_nesting routing to the outermost construct, self._nesting[0]
send_nesting_bottom(c, nest, state) ==
    IF nest = <<>>
    THEN [code |-> c, nesting |-> nest, raised |-> TRUE]
    ELSE LET bottom == nest[1]
             rest == Tail(nest)
         IN  IF bottom.st = "dead"
             THEN [code |-> c, nesting |-> rest, raised |-> FALSE]
             ELSE LET r == send(c, bottom, state)
                  IN  CASE r.out = "yield" ->
                              [code |-> r.code, nesting |-> <<r.g>> \o rest,
                               raised |-> FALSE]
                        [] r.out = "return" ->
                              [code |-> r.code, nesting |-> rest, raised |-> FALSE]
                        [] OTHER ->
                              [code |-> r.code, nesting |-> <<r.g>> \o rest,
                               raised |-> TRUE]

\* CodePlanter._send_nesting: [code, nesting, raised] after routing `state`
send_nesting(c, nest, state) ==
    IF nest = <<>>
    THEN [code |-> c, nesting |-> nest, raised |-> TRUE]        \* IndexError
    ELSE LET top == nest[Len(nest)]
             rest == SubSeq(nest, 1, Len(nest) - 1)
         IN  IF top.st = "dead"                                 \* StopIteration
             THEN [code |-> c, nesting |-> rest, raised |-> FALSE]
             ELSE LET r == send(c, top, state)
                  IN  CASE r.out = "yield" ->
                              [code |-> r.code, nesting |-> Append(rest, r.g),
                               raised |-> FALSE]
                        [] r.out = "return" ->
                              [code |-> r.code, nesting |-> rest, raised |-> FALSE]
                        [] OTHER ->
                              [code |-> r.code, nesting |-> Append(rest, r.g),
                               raised |-> TRUE]

\* CodePlanter.THEN / ELSEIF / ELSE / ENDIF / DO / ENDWHILE
Token(state) ==
    LET r == send_nesting(b_code, nesting, state)
    IN  /\ b_code' = r.code
        /\ nesting' = r.nesting
        /\ UNCHANGED <<local_vars, labels, funcs>>
        /\ Counted(state, r.raised)
        /\ Returned(state, r.raised)

\* build without tuple(): every function of this builder is the builder's list
build_shared ==
    /\ b_code' = [Append(b_code, Op("inst_leave")) EXCEPT ![1] = Op("inst_enter")]
    /\ funcs' = [f \in 1..(Len(funcs) + 1) |-> b_code']
    /\ UNCHANGED <<local_vars, nesting, labels>>
    /\ Counted("build", FALSE)
    /\ Returned("build", FALSE)

\* FunctionBuilder.build: the built code is a tuple, a copy of the list
build ==
    /\ b_code' = [Append(b_code, Op("inst_leave")) EXCEPT ![1] = Op("inst_enter")]
    /\ funcs' = Append(funcs, b_code')
    /\ UNCHANGED <<local_vars, nesting, labels>>
    /\ Counted("build", FALSE)
    /\ Returned("build", FALSE)

(***************************************************************************)
(* The Engine.  E is the engine's registers, [status, value_stack, code,   *)
(* pc, locals, globals, dump]; a handler inst_*(E) gives the registers     *)
(* after the handler ran on E, E.pc being the pc Engine.run has already    *)
(* advanced past the opcode.  status "error": an exception left run().     *)
(***************************************************************************)
NonePc == -1                              \* engine.pc = None

\* what the dump holds: a code tuple, a pc or a locals dict
DCode(c) == [tag |-> "code", code |-> c, pc |-> 0, locals |-> EmptyDict]
DPc(p) == [tag |-> "pc", code |-> <<>>, pc |-> p, locals |-> EmptyDict]
DLocals(d) == [tag |-> "locals", code |-> <<>>, pc |-> 0, locals |-> d]

Error(E) == [E EXCEPT !.status = "error"]
HasOperand(E) == E.pc < Len(E.code)                  \* else IndexError
Operand(E) == E.code[E.pc + 1]                       \* engine.code[engine.pc]
Top(E) == E.value_stack[Len(E.value_stack)]
Popped(E, k) ==
    [E EXCEPT !.value_stack = SubSeq(@, 1, Len(@) - k)]
Pushed(E, v) == [E EXCEPT !.value_stack = Append(@, v)]
\* an operand read as a jump target
Target(cell) == IF cell.tag = "int" THEN cell.n ELSE NonePc

inst_leave(E) ==
    LET n == Len(E.dump)
    IN  IF n < 3 THEN Error([E EXCEPT !.dump = <<>>])    \* pop from empty list
        ELSE [E EXCEPT !.locals = E.dump[n].locals,
                       !.pc = E.dump[n - 1].pc,
                       !.code = E.dump[n - 2].code,
                       !.dump = SubSeq(E.dump, 1, n - 3)]

\* inst_enter without saving the caller's locals
inst_enter_no_save(E) == [E EXCEPT !.locals = EmptyDict]

inst_enter(E) ==
    [E EXCEPT !.dump = Append(@, DLocals(E.locals)), !.locals = EmptyDict]

\* Engine.run calls L(self): inst_callq(engine, fn) lacks its second argument
\* and the call raises TypeError before the body runs
inst_callq(E) == Error(E)

\* value_stack is a list: list.push does not exist (AttributeError), after
\* the arguments were popped
inst_sys_callq_Nto1(E) ==
    IF ~HasOperand(E) THEN Error(E)
    ELSE LET k == nargs(Operand(E))
         IN  IF k > Len(E.value_stack) THEN Error(Popped(E, Len(E.value_stack)))
             ELSE Error(Popped(E, k))

\* inst_sys_callq_2to1 popping x first
inst_sys_callq_2to1_swapped(E) ==
    IF ~HasOperand(E) THEN Error(E)
    ELSE IF Len(E.value_stack) < 2 THEN Error(Popped(E, Len(E.value_stack)))
    ELSE LET fn == Operand(E)
             x == E.value_stack[Len(E.value_stack)]
             y == E.value_stack[Len(E.value_stack) - 1]
             E1 == Popped(E, 2)
         IN  IF NativeRaises(fn, <<x, y>>) THEN Error(E1)
             ELSE [Pushed(E1, NativeResult(fn, <<x, y>>)) EXCEPT !.pc = @ + 1]

inst_sys_callq_2to1(E) ==
    IF ~HasOperand(E) THEN Error(E)
    ELSE IF Len(E.value_stack) < 2 THEN Error(Popped(E, Len(E.value_stack)))
    ELSE LET fn == Operand(E)
             y == E.value_stack[Len(E.value_stack)]
             x == E.value_stack[Len(E.value_stack) - 1]
             E1 == Popped(E, 2)
         IN  IF NativeRaises(fn, <<x, y>>) THEN Error(E1)
             ELSE [Pushed(E1, NativeResult(fn, <<x, y>>)) EXCEPT !.pc = @ + 1]

\* engine.value_stack.push: AttributeError
inst_sys_callq_0to1(E) == Error(E)

inst_pushq(E) ==
    IF ~HasOperand(E) THEN Error(E)
    ELSE [Pushed(E, Operand(E)) EXCEPT !.pc = @ + 1]

\* inst_pop_local storing into engine.globals
inst_pop_local_into_globals(E) ==
    IF ~HasOperand(E) \/ E.value_stack = <<>> THEN Error(E)
    ELSE [Popped(E, 1) EXCEPT !.globals = Put(@, Operand(E).s, Top(E)), !.pc = @ + 1]

inst_pop_local(E) ==
    IF ~HasOperand(E) \/ E.value_stack = <<>> THEN Error(E)
    ELSE [Popped(E, 1) EXCEPT !.locals = Put(@, Operand(E).s, Top(E)), !.pc = @ + 1]

inst_push_local(E) ==
    IF ~HasOperand(E) \/ Operand(E).s \notin DOMAIN E.locals THEN Error(E)   \* KeyError
    ELSE [Pushed(E, E.locals[Operand(E).s]) EXCEPT !.pc = @ + 1]

inst_pop_global(E) ==
    IF ~HasOperand(E) \/ E.value_stack = <<>> THEN Error(E)
    ELSE [Popped(E, 1) EXCEPT !.globals = Put(@, Operand(E).s, Top(E)), !.pc = @ + 1]

inst_push_global(E) ==
    IF ~HasOperand(E) \/ Operand(E).s \notin DOMAIN E.globals THEN Error(E)  \* KeyError
    ELSE [Pushed(E, E.globals[Operand(E).s]) EXCEPT !.pc = @ + 1]

inst_jump(E) ==
    IF ~HasOperand(E) THEN Error(E)
    ELSE [E EXCEPT !.pc = Target(Operand(E))]

\* inst_jump_if_not without its `not`
inst_jump_if(E) ==
    IF E.value_stack = <<>> THEN Error(E)
    ELSE IF Truthy(Top(E))
         THEN IF ~HasOperand(E) THEN Error(Popped(E, 1))
              ELSE [Popped(E, 1) EXCEPT !.pc = Target(Operand(E))]
         ELSE [Popped(E, 1) EXCEPT !.pc = @ + 1]

inst_jump_if_not(E) ==
    IF E.value_stack = <<>> THEN Error(E)
    ELSE IF ~Truthy(Top(E))
         THEN IF ~HasOperand(E) THEN Error(Popped(E, 1))
              ELSE [Popped(E, 1) EXCEPT !.pc = Target(Operand(E))]
         ELSE [Popped(E, 1) EXCEPT !.pc = @ + 1]

\* the registers once Engine.run has fetched code[pc] and advanced pc
Fetched ==
    [status |-> status, value_stack |-> value_stack, code |-> code, pc |-> pc + 1,
     locals |-> locals, globals |-> globals, dump |-> dump]

Running == status = "running"
\* Engine.run's loop test passes: pc < len(code)
InCode == pc # NonePc /\ pc < Len(code)

SetEngine(E) ==
    /\ status' = E.status
    /\ value_stack' = E.value_stack
    /\ code' = E.code
    /\ pc' = E.pc
    /\ locals' = E.locals
    /\ globals' = E.globals
    /\ dump' = E.dump

\* One iteration of Engine.run that dispatches to the handler named opname.
Exec(opname, E) ==
    /\ Running /\ InCode
    /\ Len(trace) < MaxSteps
    /\ code[pc + 1] = Op(opname)
    /\ SetEngine(E)
    /\ trace' = Append(trace, pc)
    /\ UNCHANGED <<b_code, local_vars, nesting, labels, prog, ip, last, funcs, hist,
                   result, invoked, other>>

\* One iteration of Engine.run whose cell is no handler: L(self) raises TypeError
\* (None, an int, a str; a native called with the engine as its only argument).
not_callable ==
    /\ Running /\ InCode
    /\ Len(trace) < MaxSteps
    /\ code[pc + 1].tag # "op"
    /\ SetEngine(Error(Fetched))
    /\ trace' = Append(trace, pc)
    /\ UNCHANGED <<b_code, local_vars, nesting, labels, prog, ip, last, funcs, hist,
                   result, invoked, other>>

\* Engine.run's loop test with pc = None: TypeError
run_pc_none ==
    /\ Running /\ pc = NonePc
    /\ status' = "error"
    /\ UNCHANGED <<b_code, local_vars, nesting, labels, prog, ip, last, funcs, hist,
                   value_stack, code, pc, locals, globals, dump, result, invoked, trace,
                   other>>

\* Engine.run's loop ends and Function.__call__ returns engine.returnValues()
returnValues ==
    /\ Running /\ pc # NonePc /\ pc >= Len(code)
    /\ status' = "halted"
    /\ result' = value_stack
    /\ UNCHANGED <<b_code, local_vars, nesting, labels, prog, ip, last, funcs, hist,
                   value_stack, code, pc, locals, globals, dump, invoked, trace, other>>

\* Engine.callq
callq(E, fn) ==
    [E EXCEPT !.dump = E.dump \o <<DCode(E.code), DPc(E.pc)>>,
              !.code = funcs[fn.n], !.pc = 0]

\* the arguments pushed last to first
Engine_reversed(args) ==
    [status |-> "running", value_stack |-> [i \in 1..Len(args) |-> args[Len(args) + 1 - i]],
     code |-> <<>>, pc |-> 0, locals |-> EmptyDict, globals |-> globals, dump |-> <<>>]

\* Engine.__init__ followed by the pushq of every argument
Engine(args) ==
    [status |-> "running", value_stack |-> args, code |-> <<>>, pc |-> 0,
     locals |-> EmptyDict, globals |-> globals, dump |-> <<>>]

\* Function.__call__ up to engine.run()
Invoke(fid, args) ==
    /\ status # "running"
    /\ SetEngine(callq(Engine(args), FunctionV(fid)))
    /\ result' = <<>>
    /\ invoked' = [fid |-> fid, args |-> args]
    /\ trace' = <<>>
    /\ UNCHANGED <<b_code, local_vars, nesting, labels, prog, ip, last, funcs, hist,
                   other>>

\* One iteration of Engine.run on the registers E: L = code[pc], pc += 1, L(self)
step(E) ==
    LET L == E.code[E.pc + 1]
        E1 == [E EXCEPT !.pc = @ + 1]
    IN  CASE L = Op("inst_leave") -> inst_leave(E1)
          [] L = Op("inst_enter") -> inst_enter(E1)
          [] L = Op("inst_callq") -> inst_callq(E1)
          [] L = Op("inst_sys_callq_Nto1") -> inst_sys_callq_Nto1(E1)
          [] L = Op("inst_sys_callq_2to1") -> inst_sys_callq_2to1(E1)
          [] L = Op("inst_sys_callq_0to1") -> inst_sys_callq_0to1(E1)
          [] L = Op("inst_pushq") -> inst_pushq(E1)
          [] L = Op("inst_pop_local") -> inst_pop_local(E1)
          [] L = Op("inst_push_local") -> inst_push_local(E1)
          [] L = Op("inst_pop_global") -> inst_pop_global(E1)
          [] L = Op("inst_push_global") -> inst_push_global(E1)
          [] L = Op("inst_jump") -> inst_jump(E1)
          [] L = Op("inst_jump_if_not") -> inst_jump_if_not(E1)
          [] OTHER -> Error(E1)

\* Engine.run from the registers E to its end, nothing else running; at most
\* `fuel` iterations
RECURSIVE run(_, _)
run(E, fuel) ==
    IF E.status # "running" \/ fuel = 0 THEN E
    ELSE IF E.pc = NonePc THEN Error(E)
    ELSE IF E.pc >= Len(E.code) THEN [E EXCEPT !.status = "halted"]
    ELSE run(step(E), fuel - 1)

\* Own with one locals dict for every engine
Own_shared_locals ==
    [status |-> status, value_stack |-> value_stack, code |-> code, pc |-> pc,
     locals |-> EmptyDict, dump |-> dump, result |-> result, invoked |-> invoked,
     trace |-> trace]

\* What belongs to one invocation: the attributes of its Engine, each a list,
\* a dict or a number Engine.__init__ and the handlers make for this engine
\* alone, and what its Function.__call__ holds.  globals is not among them:
\* every Engine's globals is ENVIRONMENT, the one dict of the module.
Own ==
    [status |-> status, value_stack |-> value_stack, code |-> code, pc |-> pc,
     locals |-> locals, dump |-> dump, result |-> result, invoked |-> invoked,
     trace |-> trace]

\* a call of Function.__call__ that has not begun
NotStarted ==
    [status |-> "idle", value_stack |-> <<>>, code |-> <<>>, pc |-> 0,
     locals |-> EmptyDict, dump |-> <<>>, result |-> <<>>,
     invoked |-> [fid |-> 0, args |-> <<>>], trace |-> <<>>]

\* Two threads call the built function, each through its own Function.__call__
\* and Engine; between two iterations of Engine.run (or before the first, or
\* after the last) the interpreter passes from one call to the other.
Switch ==
    /\ prog.kind = "pair"
    /\ status # "idle"
    /\ other.status \in {"idle", "running"}
    /\ other' = Own
    /\ status' = other.status
    /\ value_stack' = other.value_stack
    /\ code' = other.code
    /\ pc' = other.pc
    /\ locals' = other.locals
    /\ dump' = other.dump
    /\ result' = other.result
    /\ invoked' = other.invoked
    /\ trace' = other.trace
    /\ UNCHANGED <<b_code, local_vars, nesting, labels, prog, ip, last, funcs, hist,
                   globals>>

(***************************************************************************)
(* What the client invokes, and with which arguments.                      *)
(***************************************************************************)
Tuples(S, lo, hi) == UNION {[1..m -> S] : m \in lo..hi}
Ints == {IntV(i) : i \in 0..MaxInt}
CondVals == {BoolV(TRUE), BoolV(FALSE), IntV(0), StrV("s")}
PushVals == {BoolV(TRUE)}                     \* immediates of the free clients
FreeArgs == {<<>>, <<BoolV(TRUE)>>, <<BoolV(FALSE)>>}

ArgChoices ==
    CASE prog.kind = "simple" -> Tuples(Ints \cup {StrV("s")}, 1, 1 + MaxExtra)
      [] prog.kind = "if" -> Tuples(CondVals, prog.k, prog.k)
      [] prog.kind = "lt" -> Tuples(Ints, 2, 2 + MaxExtra)
      [] prog.kind = "while" -> {<<IntV(i)>> : i \in 0..MaxN}
      [] prog.kind = "call" -> {<<IntV(1)>>}
      [] prog.kind = "native" -> Tuples(Ints, nargs(Natives[prog.k]), nargs(Natives[prog.k]))
      [] prog.kind = "pair" -> Tuples(CondVals, 1, 1)
      [] prog.kind = "global" -> {<<>>, <<IntV(1)>>, <<IntV(2)>>}
      [] OTHER -> FreeArgs

\* The functions the client may invoke now.  A free client invokes a function
\* when build() has just returned it, and again after an invocation.
Invocable ==
    IF Free THEN (IF last.op = "build" THEN {Len(funcs)} ELSE {})
    ELSE IF ip # Len(Script) THEN {}
    ELSE IF prog.kind = "global" THEN 1..Len(funcs) ELSE {Len(funcs)}

(***************************************************************************)
(* The specification.                                                      *)
(***************************************************************************)
Init ==
    /\ b_code = <<NoneCell>>
    /\ local_vars = {}
    /\ nesting = <<>>
    /\ labels = <<>>
    /\ prog \in Progs
    /\ ip = 0
    /\ last = [op |-> "FunctionBuilder", raised |-> FALSE]
    /\ funcs = <<>>
    /\ hist = NoTokens
    /\ status = "idle"
    /\ value_stack = <<>>
    /\ code = <<>>
    /\ pc = 0
    /\ locals = EmptyDict
    /\ globals = ENVIRONMENT
    /\ dump = <<>>
    /\ result = <<>>
    /\ invoked = [fid |-> 0, args |-> <<>>]
    /\ trace = <<>>
    /\ other = NotStarted

FreeNames == {"x"}
\* a str is no Procedure: CALLQ raises
FreeProcs == {StrV("f"), Sys2to1V("<", 2)} \cup {FunctionV(f) : f \in 1..Len(funcs)}
Tokens == {"THEN", "ELSEIF", "ELSE", "ENDIF", "DO", "ENDWHILE"}

Next ==
    \/ FunctionBuilder
    \/ \E name \in Args("VAR", FreeNames) : VAR(name)
    \/ \E names \in Args("VARS", {}) : VARS(names)
    \/ \E name \in Args("POP", IF CanEmit THEN FreeNames ELSE {}) : POP(name)
    \/ \E name \in Args("PUSH", IF CanEmit THEN FreeNames ELSE {}) : PUSH(name)
    \/ \E value \in Args("PUSHQ", IF CanEmit THEN PushVals ELSE {}) : PUSHQ(value)
    \/ \E fn \in Args("CALLQ", IF CanEmit THEN FreeProcs ELSE {}) : CALLQ(fn)
    \/ Args("NEW_LABEL", IF Len(labels) < MaxLabels THEN {0} ELSE {}) # {} /\ b_NEW_LABEL
    \/ \E l \in Args("LABEL", UserLabels) : b_LABEL(l)
    \/ \E l \in Args("_plant_label", IF CanEmit THEN UserLabels ELSE {}) : b_plant_label(l)
    \/ Args("IF", IF Len(nesting) < MaxDepth THEN {0} ELSE {}) # {} /\ b_IF
    \/ Args("WHILE", IF Len(nesting) < MaxDepth THEN {0} ELSE {}) # {} /\ b_WHILE
    \/ \E state \in Tokens : Args(state, IF CanEmit THEN {0} ELSE {}) # {} /\ Token(state)
    \/ Args("build", IF Len(funcs) < BuildLimit THEN {0} ELSE {}) # {} /\ build
    \/ \E fid \in Invocable : \E args \in ArgChoices : Invoke(fid, args)
    \/ Switch
    \/ Exec("inst_leave", inst_leave(Fetched))
    \/ Exec("inst_enter", inst_enter(Fetched))
    \/ Exec("inst_callq", inst_callq(Fetched))
    \/ Exec("inst_sys_callq_Nto1", inst_sys_callq_Nto1(Fetched))
    \/ Exec("inst_sys_callq_2to1", inst_sys_callq_2to1(Fetched))
    \/ Exec("inst_sys_callq_0to1", inst_sys_callq_0to1(Fetched))
    \/ Exec("inst_pushq", inst_pushq(Fetched))
    \/ Exec("inst_pop_local", inst_pop_local(Fetched))
    \/ Exec("inst_push_local", inst_push_local(Fetched))
    \/ Exec("inst_pop_global", inst_pop_global(Fetched))
    \/ Exec("inst_push_global", inst_push_global(Fetched))
    \/ Exec("inst_jump", inst_jump(Fetched))
    \/ Exec("inst_jump_if_not", inst_jump_if_not(Fetched))
    \/ not_callable
    \/ run_pc_none
    \/ returnValues

Spec == Init /\ [][Next]_vars

(***************************************************************************)
(* Well-formedness of the model's own states.                              *)
(***************************************************************************)
\* the dump holds (code, pc, locals) triples, so inst_leave pops what it names
DumpShape ==
    /\ Len(dump) \in {0, 2, 3}
    /\ \A i \in 1..Len(dump) : dump[i].tag = <<"code", "pc", "locals">>[i]

\* the run loop never fetches a Procedure object as an opcode, and a native is
\* only ever applied to the numbers its operator is modelled on
FetchShape ==
    (Running /\ InCode) =>
        /\ code[pc + 1].tag \in {"op", "None", "int", "bool", "str"}
        /\ code[pc + 1] = Op("inst_sys_callq_2to1") /\ Len(value_stack) >= 2 =>
              /\ code[pc + 2].tag \in {"Sys2to1", "SysNto1"}
              /\ IsNumber(value_stack[Len(value_stack)])
              /\ IsNumber(value_stack[Len(value_stack) - 1])

(***************************************************************************)
(* Claims.                                                                 *)
(***************************************************************************)
Invoked == invoked.fid > 0
F == funcs[invoked.fid]                    \* the code of the function invoked
Halted == status = "halted"
Last(sq) == sq[Len(sq)]
Count(sq, x) == Cardinality({i \in 1..Len(sq) : sq[i] = x})
CountOp(c, opname) == Count(c, Op(opname))
\* the cells of F that hold opname
Cells(opname) == {p \in 0..(Len(F) - 1) : F[p + 1] = Op(opname)}

\* ---- C1 ----
\* the bodies of an IF program are the immediates b1, b2, ..., and e for ELSE
BodyMarks == {StrV(BodyMark[i]) : i \in 1..Len(BodyMark)} \cup {StrV("e")}
IsBodyCell(p) == F[p + 1] = Op("inst_pushq") /\ F[p + 2] \in BodyMarks
\* the bodies the invocation has executed, in execution order
BodiesRun ==
    LET fetched == SelectSeq(trace, IsBodyCell)
    IN  [j \in 1..Len(fetched) |-> F[fetched[j] + 2]]
\* the first condition that is truthy (condition i is argument i), 0 if none
FirstTruthy ==
    LET a == invoked.args
        T == {i \in 1..Len(a) : Truthy(a[i])}
    IN  IF T = {} THEN 0 ELSE CHOOSE i \in T : \A j \in T : i <= j
ExpectedBody ==
    IF FirstTruthy > 0 THEN <<StrV(BodyMark[FirstTruthy])>>
    ELSE IF prog.els = 1 THEN <<StrV("e")>> ELSE <<>>
\* the cell ENDIF bound end-of-if to: the first cell after the construct
EndIf == Len(F) - 1 - 2 * prog.tail
\* execution passes from the construct to end-of-if, and nowhere else
ContinuesAtEndIf ==
    /\ \A p \in Cells("inst_jump") : F[p + 2] = IntV(EndIf)
    /\ \E j \in 1..Len(trace) :
          /\ trace[j] = EndIf
          /\ \A i \in 1..(j - 1) : trace[i] < EndIf
          /\ \A i \in (j + 1)..Len(trace) : trace[i] > EndIf

\* C1: an IF / ELSEIF / ELSE / ENDIF function executes exactly the body of the
\* first truthy condition (the ELSE body, or none, when no condition is truthy)
\* and then continues at the cell bound as end-of-if.
C1_ExactlyOneBranch ==
    (prog.kind = "if" /\ Invoked) =>
        /\ status # "error"
        /\ Halted =>
              /\ BodiesRun = ExpectedBody
              /\ result = ExpectedBody \o (IF prog.tail = 1 THEN <<StrV("z")>> ELSE <<>>)
              /\ ContinuesAtEndIf

C1_Witness ==
    /\ prog = Prog("if", 2, 1, 1) /\ Halted
    /\ invoked.args = <<BoolV(FALSE), StrV("s")>>
    /\ result = <<StrV("b2"), StrV("z")>>

\* ---- C2 ----
\* C2: an invocation starts a fresh Engine whose operand stack is the arguments,
\* first argument at the bottom, inside the function's code at pc 0; what it
\* returns is the operand stack at the halt; store-then-load-twice returns
\* (a1..a(n-1), an, an).
C2_Invocation ==
    /\ (Running /\ trace = <<>>) =>
          /\ value_stack = invoked.args
          /\ locals = EmptyDict
          /\ code = F /\ pc = 0
          /\ dump = <<DCode(<<>>), DPc(0)>>
    /\ Halted => result = value_stack
    /\ (prog.kind = "simple" /\ Invoked) =>
          /\ status # "error"
          /\ Halted => result = invoked.args \o <<Last(invoked.args)>>

C2_Witness ==
    /\ prog.kind = "simple" /\ Halted
    /\ invoked.args = <<IntV(1), IntV(2)>>
    /\ result = <<IntV(1), IntV(2), IntV(2)>>

\* ---- C3 ----
\* the comparison the native named fname makes of x (pushed first) and y
Compare(fname, x, y) == IF fname = "<" THEN BoolV(x.n < y.n) ELSE BoolV(x.n > y.n)

\* C3: a 2-argument native call that returns pops y (top) and x (below it),
\* pushes fn(x, y), leaves the rest of the stack alone and moves pc past the
\* procedure operand; the comparison program so returns (a < b) for (a, b).
C3_NativeCall2 ==
    [][/\ (Running /\ InCode /\ code[pc + 1] = Op("inst_sys_callq_2to1")
             /\ status' = "running") =>
            LET n == Len(value_stack)
                fn == code[pc + 2]
            IN  /\ n >= 2
                /\ fn.s \in {"<", ">"} =>
                      value_stack' = SubSeq(value_stack, 1, n - 2)
                                       \o <<Compare(fn.s, value_stack[n - 1], value_stack[n])>>
                /\ Len(value_stack') = n - 1
                /\ SubSeq(value_stack', 1, n - 2) = SubSeq(value_stack, 1, n - 2)
                /\ pc' = pc + 2
                /\ code' = code /\ locals' = locals /\ dump' = dump
       /\ (prog.kind = "lt" /\ status' = "halted") =>
            LET a == invoked.args
                n == Len(a)
            IN  result' = SubSeq(a, 1, n - 2) \o <<Compare(LtName[prog.k], a[n - 1], a[n])>>
      ]_vars

C3_Witness ==
    /\ prog = Prog("lt", 1, 0, 0) /\ Halted
    /\ invoked.args = <<IntV(0), IntV(1), IntV(2)>>
    /\ result = <<IntV(0), BoolV(TRUE)>>

\* ---- C4 ----
CondStart == CHOOSE p \in Cells("inst_push_local") :
                \A q \in Cells("inst_push_local") : p <= q
BodyStart == CHOOSE p \in Cells("inst_pushq") : F[p + 2] = StrV("v")
CondExit == CHOOSE p \in Cells("inst_jump_if_not") : TRUE
\* the opcode cells of the condition code and its conditional jump, in order
CondCells == <<CondStart, CondStart + 2, CondStart + 4, CondExit>>

\* C4: the loop `while n > 0: push; n := n - 1` started with n = N halts without
\* an error after a number of steps bounded in N, its jump back targets the
\* first cell of the condition, every execution of the body directly follows
\* an evaluation of the condition, the body runs N times and N values return.
C4_WhileLoop ==
    (prog.kind = "while" /\ Invoked) =>
        LET N == invoked.args[1].n
        IN  /\ status # "error"
            /\ Len(trace) <= 10 * N + 7
            /\ Running => ENABLED Next
            /\ \A p \in Cells("inst_jump") : F[p + 2] = IntV(CondStart)
            /\ CondStart = 3
            /\ \A j \in 1..Len(trace) :
                  trace[j] = BodyStart =>
                      j > 4 /\ SubSeq(trace, j - 4, j - 1) = CondCells
            /\ Halted =>
                  /\ Count(trace, BodyStart) = N
                  /\ Count(trace, CondStart) = N + 1
                  /\ result = [i \in 1..N |-> StrV("v")]

C4_Witness ==
    /\ prog.kind = "while" /\ Halted
    /\ invoked.args = <<IntV(MaxN)>>
    /\ Len(result) = MaxN

\* ---- C5 ----
\* C5: a function whose body calls a built function completes: the call opcode
\* runs the callee on the same operand stack and its frame-leave resumes the
\* caller, which returns the resulting operand stack.
C5_CallReturns ==
    (prog.kind = "call" /\ Invoked) =>
        /\ status # "error"
        /\ Halted => result = <<StrV("g"), IntV(1)>>

\* ---- C6 ----
\* C6: in every function build() returned, the operand of every jump and
\* jump-if-false is a resolved integer offset.
C6_JumpsResolved ==
    \A f \in 1..Len(funcs) :
        \A i \in 1..Len(funcs[f]) :
            funcs[f][i] \in {Op("inst_jump"), Op("inst_jump_if_not")} =>
                i < Len(funcs[f]) /\ funcs[f][i + 1].tag = "int"

\* ---- C7 ----
\* a step that is a call of a method of the current builder
BuilderStep == status = "idle" /\ status' = "idle" /\ last'.op # "FunctionBuilder"
Min(a, b) == IF a < b THEN a ELSE b

\* C7: a label that is set keeps its offset whatever the builder is asked to
\* do; binding a set label raises and leaves the labels and every cell as they
\* were; a bind that returns has set an unset label to the current length.
C7_LabelSetOnce ==
    [][BuilderStep =>
          /\ Len(labels') >= Len(labels)
          /\ \A l \in 1..Len(labels) : labels[l].isset => labels'[l] = labels[l]
          /\ \A i \in 1..Min(Len(nesting), Len(nesting')) :
                (nesting[i].startwhile_label.isset /\ nesting'[i].st # "dead") =>
                    nesting'[i].startwhile_label = nesting[i].startwhile_label
          /\ last'.op = "LABEL" =>
                IF last'.raised
                THEN /\ \E l \in 1..Len(labels) : labels[l].isset
                     /\ b_code' = b_code /\ labels' = labels
                ELSE \E l \in 1..Len(labels) :
                        /\ ~labels[l].isset
                        /\ labels'[l].isset /\ labels'[l].offset = Len(b_code)
      ]_vars

C7_Witness ==
    /\ last = [op |-> "LABEL", raised |-> TRUE]
    /\ Len(labels) >= 1 /\ labels[1].isset
    /\ \E i \in 2..Len(b_code) : b_code[i] = IntV(labels[1].offset)

\* ---- C8 ----
\* the tokens the generator suspended at st expects
Expects(st) ==
    CASE st \in {"if_start", "if_elseif"} -> {"THEN"}
      [] st = "if_branch" -> {"ELSE", "ELSEIF", "ENDIF"}
      [] st = "if_else" -> {"ENDIF"}
      [] st = "while_start" -> {"DO"}
      [] st = "while_body" -> {"ENDWHILE"}
      [] OTHER -> {}

\* C8: a structural token returns without raising exactly when a construct is
\* open and the innermost one expects that token in its current state.
C8_TokenAccepted ==
    [][(BuilderStep /\ last'.op \in Tokens) =>
          (~last'.raised <=>
              (nesting # <<>> /\ last'.op \in Expects(Last(nesting).st)))
      ]_vars

\* ---- C9 ----
\* C9: a builder call that raises leaves the instruction sequence, the built
\* functions and every label as they were; of the open constructs only the
\* innermost changes, to a finished generator.
C9_RaiseLeavesCode ==
    [][(BuilderStep /\ last'.raised) =>
          /\ b_code' = b_code
          /\ labels' = labels
          /\ funcs' = funcs
          /\ local_vars' = local_vars
          /\ Len(nesting') = Len(nesting)
          /\ \A i \in 1..Len(nesting) :
                \/ nesting'[i] = nesting[i]
                \/ i = Len(nesting) /\ nesting'[i] = Gen("dead")
      ]_vars

C9_Witness ==
    /\ last = [op |-> "ELSE", raised |-> TRUE]
    /\ nesting # <<>> /\ Last(nesting).st = "dead"
    /\ CountOp(b_code, "inst_jump") = 1
    /\ Last(b_code) = NoneCell

\* ---- C10 ----
\* C10: when no call has raised and every construct is closed, the builder has
\* emitted one jump-if-false per THEN and DO, and one jump per ELSE, ELSEIF and
\* ENDWHILE.
C10_JumpCounts ==
    (~hist.raised /\ nesting = <<>>) =>
        /\ CountOp(b_code, "inst_jump_if_not") = hist.n_then + hist.n_do
        /\ CountOp(b_code, "inst_jump") = hist.n_else + hist.n_elseif + hist.n_endwhile

C10_Witness ==
    /\ prog = Prog("if", 2, 1, 0) /\ last.op = "build" /\ nesting = <<>>
    /\ hist = [NoTokens EXCEPT !.n_then = 2, !.n_elseif = 1, !.n_else = 1]
    /\ CountOp(b_code, "inst_jump") = 2

\* ---- C11 ----
NativeOps == {"inst_sys_callq_0to1", "inst_sys_callq_2to1", "inst_sys_callq_Nto1"}

\* C11: for a native of declared arity k (0, 2 or any other), the call opcode
\* CALLQ selected pops the top k values, calls the native on them in the order
\* they were pushed, pushes its one result and moves pc past the operand.
C11_NativeCallAnyArity ==
    [][(Running /\ InCode /\ code[pc + 1].tag = "op" /\ code[pc + 1].s \in NativeOps
          /\ pc + 1 < Len(code) /\ trace' = Append(trace, pc) /\ other' = other) =>
            LET fn == code[pc + 2]
                k == nargs(fn)
                n == Len(value_stack)
                args == SubSeq(value_stack, n - k + 1, n)
            IN  (/\ fn.tag \in {"SysNto1", "Sys2to1"}
                 /\ callq_opcode(fn) = code[pc + 1]
                 /\ k <= n
                 /\ ~NativeRaises(fn, args)) =>
                    /\ status' = "running"
                    /\ value_stack' = SubSeq(value_stack, 1, n - k) \o <<NativeResult(fn, args)>>
                    /\ pc' = pc + 2
      ]_vars

\* ---- C12 ----
\* C12: the instruction sequence of a function build() has returned never
\* changes: no later builder call (an emission, a token, a bind that patches
\* cells, another build) and no step of an invocation changes a cell of it or
\* its length.
C12_BuiltImmutable ==
    [][/\ Len(funcs') >= Len(funcs)
       /\ \A f \in 1..Len(funcs) : funcs'[f] = funcs[f]
      ]_vars

\* the builder patched cell 2 and built again after the first function was
\* built, and the second function has run
C12_Witness ==
    /\ prog.kind = "builds" /\ Len(funcs) = 2 /\ Halted /\ invoked.fid = 2
    /\ funcs[1] = <<Op("inst_enter"), Op("inst_jump_if_not"), NoneCell, Op("inst_leave")>>
    /\ funcs[2] = <<Op("inst_enter"), Op("inst_jump_if_not"), IntV(4), Op("inst_leave"),
                    Op("inst_leave")>>

\* ---- C13 ----
\* Function.__call__(args) on function fid with no other call in progress: how
\* it ends and what it returns
CallAlone(fid, args) ==
    LET E == run(callq(Engine(args), FunctionV(fid)), MaxSteps)
    IN  [status |-> E.status,
         result |-> IF E.status = "halted" THEN E.value_stack ELSE <<>>]
\* the two calls of the interleaving client
Started == status # "idle" \/ other.status # "idle"

\* C13: two engines running the same function (which makes no global load or
\* store) with their steps interleaved in any order: a step of one leaves the
\* other's operand stack, pc, locals and frame stack and the function's code
\* as they were, and each call ends as it ends alone, with the same values.
C13_IndependentEngines ==
    [][(prog.kind = "pair" /\ Started) =>
          /\ funcs' = funcs
          /\ globals' = globals
          /\ other' # other => (other' = Own /\ Own' = other)
          /\ status' \in {"halted", "error"} =>
                /\ CallAlone(invoked'.fid, invoked'.args).status = status'
                /\ CallAlone(invoked'.fid, invoked'.args).result = result'
          /\ other'.status \in {"halted", "error"} =>
                /\ CallAlone(other'.invoked.fid, other'.invoked.args).status = other'.status
                /\ CallAlone(other'.invoked.fid, other'.invoked.args).result = other'.result
      ]_vars

\* one call has run to its end while the other was in the middle of its own
C13_Witness ==
    /\ prog.kind = "pair" /\ Halted /\ result = <<StrV("b1"), StrV("z")>>
    /\ other.status = "running" /\ Len(other.trace) >= 3
    /\ other.locals = Put(EmptyDict, "c1", BoolV(FALSE))

\* ---- C14 ----
\* this step is an opcode of the running engine that returned without raising
OpcodeRan ==
    Running /\ InCode /\ trace' = Append(trace, pc) /\ status' = "running" /\ other' = other
\* this step is Function.__call__ making its Engine and entering run()
CallBegins == status # "running" /\ status' = "running" /\ other' = other

\* C14: the global environment is one mapping that every invocation reads and
\* writes and that outlives them: only a store under an undeclared name changes
\* it, a load of an undeclared name pushes what it holds, whichever invocation
\* stored it; locals start empty in every invocation and a store under a
\* declared local name changes the locals and never the global environment.
C14_GlobalsShared ==
    [][/\ OpcodeRan =>
            LET L == code[pc + 1]
                name == code[pc + 2].s
            IN  /\ L = Op("inst_pop_global") =>
                      globals' = Put(globals, name, Last(value_stack))
                /\ L = Op("inst_push_global") =>
                      value_stack' = Append(value_stack, globals[name])
                /\ L = Op("inst_pop_local") =>
                      locals' = Put(locals, name, Last(value_stack))
                /\ L # Op("inst_pop_global") => globals' = globals
       /\ ~OpcodeRan => globals' = globals
       /\ CallBegins => locals' = EmptyDict /\ dump' = <<DCode(<<>>), DPc(0)>>
       /\ prog.kind = "global" =>
            /\ prog.k \in {2, 3} =>
                  /\ "g" \notin DOMAIN globals'
                  /\ invoked'.fid = 2 => status' # "halted"
            /\ (prog.k = 1 /\ invoked'.fid = 2 /\ status' = "halted") =>
                  result' = invoked'.args \o <<globals'["g"]>>
      ]_vars

\* the second function has returned the value an earlier invocation of the
\* first function stored
C14_Witness ==
    /\ prog = Prog("global", 1, 0, 0) /\ Halted
    /\ invoked = [fid |-> 2, args |-> <<>>]
    /\ result = <<IntV(2)>>

\* ---- C15 ----
\* the cells of c whose 0-based index is in the list ds hold v, every other
\* cell of c is the cell of c0
PatchedAt(c, c0, ds, v) ==
    /\ Len(c) = Len(c0)
    /\ \A i \in 1..Len(c0) :
          c[i] = IF \E j \in 1..Len(ds) : ds[j] = i - 1 THEN v ELSE c0[i]

\* C15: planting a label appends one operand cell: the label's offset if it is
\* set, else a placeholder whose index becomes a pending patch of the label;
\* binding the label writes the offset into exactly the cells planted while it
\* was unset and leaves it without pending patches.
C15_PlantAndPatch ==
    [][BuilderStep =>
          /\ last'.op = "_plant_label" =>
                \E l \in 1..Len(labels) :
                    /\ \A m \in 1..Len(labels) : m # l => labels'[m] = labels[m]
                    /\ Len(b_code') = Len(b_code) + 1
                    /\ SubSeq(b_code', 1, Len(b_code)) = b_code
                    /\ IF labels[l].isset
                       THEN /\ Last(b_code') = IntV(labels[l].offset)
                            /\ labels'[l] = labels[l]
                       ELSE /\ Last(b_code') = NoneCell
                            /\ labels'[l] = [labels[l] EXCEPT
                                               !.dependents = Append(@, Len(b_code))]
          /\ (last'.op = "LABEL" /\ ~last'.raised) =>
                \E l \in 1..Len(labels) :
                    /\ \A m \in 1..Len(labels) : m # l => labels'[m] = labels[m]
                    /\ ~labels[l].isset
                    /\ PatchedAt(b_code', b_code, labels[l].dependents, IntV(Len(b_code)))
                    /\ labels'[l] = [isset |-> TRUE, offset |-> Len(b_code),
                                     dependents |-> <<>>]
          /\ \A l \in 1..Len(labels) : labels[l].isset => labels[l].dependents = <<>>
      ]_vars

\* a label planted twice while unset and once after it was bound
C15_Witness ==
    /\ last.op = "_plant_label"
    /\ Len(labels) >= 1 /\ labels[1] = [isset |-> TRUE, offset |-> 3, dependents |-> <<>>]
    /\ SubSeq(b_code, 2, 4) = <<IntV(3), IntV(3), IntV(3)>>

\* ---- C16 ----
\* C16: every function build() has returned holds the frame-enter opcode at
\* index 0 and nowhere else, and the frame-leave opcode at its last index and
\* nowhere else.
C16_EnterFirstLeaveLast ==
    \A f \in 1..Len(funcs) :
        LET c == funcs[f]
        IN  /\ c[1] = Op("inst_enter")
            /\ Last(c) = Op("inst_leave")
            /\ \A i \in 2..Len(c) : c[i] # Op("inst_enter")
            /\ \A i \in 1..(Len(c) - 1) : c[i] # Op("inst_leave")

\* ---- C17 ----
\* this step is one iteration of Engine.run of the running engine
Iteration == Running /\ InCode /\ trace' = Append(trace, pc) /\ other' = other

\* C17: the frame stack is pushed and popped in LIFO balance: the top-level
\* call saves (code, pc), frame-enter saves the locals on top of them, a
\* frame-leave finds these three on top and restores exactly them, no other
\* opcode touches the frame stack, it is never popped when empty, and at a
\* normal halt it is empty with the code and pc of the top level.
C17_FrameStackLIFO ==
    [][/\ CallBegins =>
            /\ dump' = <<DCode(<<>>), DPc(0)>>
            /\ code' = funcs[invoked'.fid] /\ pc' = 0
       /\ Iteration =>
            LET L == code[pc + 1]
                n == Len(dump)
            IN  /\ L = Op("inst_enter") =>
                      /\ dump' = Append(dump, DLocals(locals))
                      /\ locals' = EmptyDict
                /\ L = Op("inst_leave") =>
                      /\ n >= 3 /\ status' = "running"
                      /\ dump[n].tag = "locals" /\ locals' = dump[n].locals
                      /\ dump[n - 1].tag = "pc" /\ pc' = dump[n - 1].pc
                      /\ dump[n - 2].tag = "code" /\ code' = dump[n - 2].code
                      /\ dump' = SubSeq(dump, 1, n - 3)
                /\ L \notin {Op("inst_enter"), Op("inst_leave")} =>
                      dump' = dump /\ code' = code
       /\ status' = "halted" => dump' = <<>> /\ code' = <<>> /\ pc' = 0
      ]_vars

\* a loop of two iterations has halted through its frame-leave
C17_Witness ==
    /\ prog.kind = "while" /\ Halted /\ invoked.args = <<IntV(2)>>
    /\ dump = <<>> /\ code = <<>> /\ pc = 0
    /\ F[Last(trace) + 1] = Op("inst_leave")

\* ---- C18 ----
\* the names the client may pass to the builder call it makes now
NamesGiven == IF Free THEN FreeNames ELSE {Script[ip + 1].a}

\* C18: POP(name) and PUSH(name) append the local opcode if name is declared
\* local when they are called and the global opcode if not, then the name; a
\* declaration appends nothing and changes no cell already emitted.
C18_OpcodeByDeclaration ==
    [][BuilderStep =>
          /\ last'.op = "POP" =>
                \E name \in NamesGiven :
                    b_code' = b_code \o <<IF name \in local_vars THEN Op("inst_pop_local")
                                           ELSE Op("inst_pop_global"), StrV(name)>>
          /\ last'.op = "PUSH" =>
                \E name \in NamesGiven :
                    b_code' = b_code \o <<IF name \in local_vars THEN Op("inst_push_local")
                                           ELSE Op("inst_push_global"), StrV(name)>>
          /\ last'.op = "VAR" =>
                \E name \in NamesGiven :
                    local_vars' = local_vars \cup {name} /\ b_code' = b_code
          /\ last'.op = "VARS" =>
                /\ local_vars \subseteq local_vars' /\ b_code' = b_code
                /\ \A i \in 1..Len(Script[ip + 1].a) : Script[ip + 1].a[i] \in local_vars'
      ]_vars

\* one name stored globally, then declared, then loaded locally
C18_Witness ==
    /\ "x" \in local_vars
    /\ b_code = <<NoneCell, Op("inst_pop_global"), StrV("x"),
                  Op("inst_push_local"), StrV("x")>>

\* ---- C19 ----
\* C19: while no builder call has raised, IF and WHILE push one construct, a
\* token changes the state of the innermost construct only, an accepted ENDIF
\* or ENDWHILE removes exactly the innermost construct, and no call changes
\* the state or the labels of an enclosing construct; the stack so holds one
\* construct per construct opened and not yet closed, and none when all are closed.
C19_NestingStack ==
    [][(BuilderStep /\ ~hist'.raised) =>
          LET n == Len(nesting)
          IN  /\ last'.op = "IF" => nesting' = Append(nesting, Gen("if_start"))
              /\ last'.op = "WHILE" =>
                    /\ Len(nesting') = n + 1
                    /\ SubSeq(nesting', 1, n) = nesting
                    /\ Last(nesting').st = "while_start"
              /\ last'.op \in Tokens =>
                    /\ n >= 1
                    /\ last'.op \in Expects(Last(nesting).st)
                    /\ SubSeq(nesting', 1, n - 1) = SubSeq(nesting, 1, n - 1)
                    /\ IF last'.op \in {"ENDIF", "ENDWHILE"}
                       THEN Len(nesting') = n - 1
                       ELSE /\ Len(nesting') = n
                            /\ Last(nesting').st # Last(nesting).st
              /\ last'.op \notin Tokens \cup {"IF", "WHILE"} => nesting' = nesting
      ]_vars

\* a WHILE opened and closed inside the branch of an IF that is still open
C19_Witness ==
    /\ last = [op |-> "ENDWHILE", raised |-> FALSE] /\ ~hist.raised
    /\ Len(nesting) = 1 /\ nesting[1].st = "if_branch"
    /\ hist.n_then = 1 /\ hist.n_do = 1 /\ hist.n_endwhile = 1

\* ---- C20 ----
\* the indices of the cells of c that hold opcodes, from index i on: frame-enter
\* and frame-leave are one cell wide, every other opcode has one operand cell
RECURSIVE OpcodeCells(_, _)
OpcodeCells(c, i) ==
    IF i >= Len(c) THEN {}
    ELSE {i} \cup OpcodeCells(c, IF c[i + 1] \in {Op("inst_enter"), Op("inst_leave")}
                                 THEN i + 1 ELSE i + 2)
Jumps == {Op("inst_jump"), Op("inst_jump_if_not")}
\* the builder was used through its public methods, none raised, and every
\* construct was closed when build() was called last
WellFormedBuild ==
    last.op = "build" /\ nesting = <<>> /\ ~hist.raised /\ prog.kind # "labels"

\* C20: in a function built with every construct closed, each jump and
\* jump-if-false operand is the index of an opcode cell between 1 and the final
\* frame-leave; when it runs, every cell fetched as an opcode is a handler and
\* pc never exceeds the length of the current code.
C20_JumpTargets ==
    WellFormedBuild =>
        LET c == Last(funcs)
            ops == OpcodeCells(c, 0)
        IN  /\ \A p \in ops :
                  /\ c[p + 1].tag = "op"
                  /\ c[p + 1] \in Jumps =>
                        /\ c[p + 2].tag = "int"
                        /\ c[p + 2].n \in ops
                        /\ 1 <= c[p + 2].n /\ c[p + 2].n <= Len(c) - 1
            /\ Invoked =>
                  /\ pc # NonePc /\ pc <= Len(code)
                  /\ (Running /\ InCode) =>
                        code[pc + 1].tag = "op" /\ pc \in OpcodeCells(code, 0)

\* IF / THEN / ELSE / ENDIF called with a truthy value: the conditional jump
\* fell through and the jump over the ELSE branch was taken
C20_Witness ==
    /\ WellFormedBuild /\ prog.kind = "tokens" /\ Halted
    /\ hist.n_then = 1 /\ hist.n_else = 1
    /\ invoked.args = <<BoolV(TRUE)>>
    /\ trace = <<0, 1, 3, 5>>
====
